---- MODULE Spec2Model ----
(***************************************************************************)
(* Model of app.py, the O2O Client Insight Dashboard: the cached synthetic *)
(* data generator (generate_data) and the metrics the script derives from  *)
(* its table on every run (KPI row, client aggregation, growth             *)
(* leaderboard, client detail, cost structure, CSV export).                *)
(*                                                                         *)
(* Numbers.  Money amounts (float64 in the code) are fixed-point integers  *)
(* with a resolution of one dollar; a product with a rate is rounded to    *)
(* that resolution as a float product is rounded to the nearest double.    *)
(* Rates and factors are integers in thousandths.  A quotient is an exact  *)
(* reduced fraction [num, den] with den > 0; den = 0 encodes the IEEE      *)
(* results of a numpy division by zero (inf, -inf, nan) and den = -1 the   *)
(* ZeroDivisionError a Python float division raises.                       *)
(*                                                                         *)
(* Randomness.  np.random is a seeded pseudo-random generator: the seed is *)
(* chosen when the process starts, and every draw advances the generator   *)
(* state.  rng is that state; a draw maps it to a point of the sampled     *)
(* interval.                                                               *)
(***************************************************************************)
EXTENDS Integers, Sequences, FiniteSets, TLC

(* ------------------------------ bounds -------------------------------- *)

\* number of names of the client list the generator iterates
NumClients == 6
\* seeds the process may start with: 1..MaxSeed
MaxSeed == 40
\* script runs (Streamlit reruns the script on every interaction)
MaxRuns == 3
\* clients of a constructed table
MaxTClients == 2
\* largest top_n tried on the sorted growth frame
MaxTopN == 6

(* ------------------------- program constants -------------------------- *)

AllClients ==
  << "Tasty Wok Express", "Burger Kingpin", "Sushi Zen", "Pizza Heaven",
     "Taco Fiesta", "Curry House", "Noodle Bar 99", "Salad Greens",
     "Wings & Things", "Breakfast Club", "Mama's Pasta", "BBQ Smokehouse",
     "Vegan Vibes", "Donut Delights", "Smoothie Station", "Grill Master",
     "Seafood Shack", "Kebab Corner", "Dim Sum Daily", "Falafel Factory" >>

\* the list generate_data iterates (a prefix of the source's list)
clients == SubSeq(AllClients, 1, NumClients)

\* faulty variant of months: a label is missing from the list
months_m ==
  << "Jan", "Feb", "Mar", "Apr", "May", "Jun",
     "Jul", "Aug", "Sep", "Oct", "Nov" >>

months ==
  << "Jan", "Feb", "Mar", "Apr", "May", "Jun",
     "Jul", "Aug", "Sep", "Oct", "Nov", "Dec" >>

\* comm_rate = 0.20, in thousandths
comm_rate == 200
\* agency_fee = 2500
agency_fee == 2500
\* .head(5)
TopN == 5

\* position of each name in the lexicographic (code point) order of Python
\* strings, which is the order groupby("Client_Name") emits its groups in
AlphaRank ==
  [n \in {AllClients[k] : k \in 1..Len(AllClients)} |->
     CASE n = "Tasty Wok Express" -> 18 [] n = "Burger Kingpin" -> 3
       [] n = "Sushi Zen" -> 16         [] n = "Pizza Heaven" -> 12
       [] n = "Taco Fiesta" -> 17       [] n = "Curry House" -> 4
       [] n = "Noodle Bar 99" -> 11     [] n = "Salad Greens" -> 13
       [] n = "Wings & Things" -> 20    [] n = "Breakfast Club" -> 2
       [] n = "Mama's Pasta" -> 10      [] n = "BBQ Smokehouse" -> 1
       [] n = "Vegan Vibes" -> 19       [] n = "Donut Delights" -> 6
       [] n = "Smoothie Station" -> 15  [] n = "Grill Master" -> 8
       [] n = "Seafood Shack" -> 14     [] n = "Kebab Corner" -> 9
       [] n = "Dim Sum Daily" -> 5      [] n = "Falafel Factory" -> 7 ]

(* ------------------------------ numbers ------------------------------- *)

Abs(x) == IF x < 0 THEN -x ELSE x

RECURSIVE GCD(_, _)
GCD(a, b) == IF b = 0 THEN a ELSE GCD(b, a % b)

\* the fraction n/d, d # 0, reduced and with a positive denominator
Rat(n, d) ==
  LET g == GCD(Abs(n), Abs(d))
      s == IF d < 0 THEN -1 ELSE 1
  IN  [num |-> s * (n \div g), den |-> Abs(d) \div g]

Zero == [num |-> 0, den |-> 1]
NaN == [num |-> 0, den |-> 0]
PosInf == [num |-> 1, den |-> 0]
NegInf == [num |-> -1, den |-> 0]
ZeroDivisionError == [num |-> 0, den |-> -1]

IsFinite(r) == r.den > 0

\* x / y on Python floats: raises when y is zero
PyDiv(x, y) == IF y = 0 THEN ZeroDivisionError ELSE Rat(x, y)

\* x / y on numpy.float64 scalars and pandas Series: IEEE, never raises
NpDiv(x, y) ==
  IF y # 0 THEN Rat(x, y)
  ELSE IF x > 0 THEN PosInf ELSE IF x < 0 THEN NegInf ELSE NaN

\* r * 100; inf, nan and a raised error propagate
Times100(r) == IF IsFinite(r) THEN Rat(r.num * 100, r.den) ELSE r

\* a/b < c/d for b, d > 0, by continued fractions (no cross products)
RECURSIVE FracLT(_, _, _, _)
FracLT(a, b, c, d) ==
  LET q1 == a \div b
      q2 == c \div d
      r1 == a % b
      r2 == c % d
  IN  IF q1 # q2 THEN q1 < q2
      ELSE IF r2 = 0 THEN FALSE
      ELSE IF r1 = 0 THEN TRUE
      ELSE FracLT(d, r2, b, r1)

\* r < s on finite fractions
RatLT(r, s) == FracLT(r.num, r.den, s.num, s.den)

\* x * rate for a rate in thousandths, rounded to the resolution
MulRate(x, rate) == (x * rate) \div 1000

(* ------------------------------- state -------------------------------- *)

VARIABLES
  pc,              \* position of the script run
  runs,            \* script runs started so far
  rng,             \* state of the np.random generator
  cache,           \* st.cache_data store of generate_data: <<>> or <<table>>
  ci,              \* generate_data: index of the current client
  mi,              \* generate_data: i of enumerate(months)
  profile,         \* generate_data: base_gmv, growth_trend, cogs_rate
  data,            \* generate_data: the list of rows built so far
  raw,             \* inputs of a constructed table (no generator run)
  df,              \* the script's table
  kpis,            \* total_gmv, total_profit, total_invest, weighted_roi
  client_agg,      \* the per-client aggregate frame
  growth_list,     \* the growth entries, in enumeration order
  growth_sorted,   \* growth frame after sort_values(ascending=False)
  growth_df,       \* ... after .head(5)
  selection,       \* the sidebar selectbox: index of the chosen option
  detail,          \* selected_client, c_data, c_totals, last_month, roi_mult
  costs,           \* the cost structure of the selected client
  csv              \* the exported report

genVars == <<ci, mi, profile, data>>
outVars == <<kpis, client_agg, growth_list, growth_sorted, growth_df,
             detail, costs, csv>>
vars == <<pc, runs, rng, cache, genVars, raw, df, outVars, selection>>

(* ------------------------- the random generator ----------------------- *)

\* one step of the generator state
NextRandom(s) == (s * 6) % 251

\* the state after k draws
RECURSIVE Advance(_, _)
Advance(s, k) == IF k = 0 THEN s ELSE Advance(NextRandom(s), k - 1)

\* np.random.uniform(low, high) at generator state s: low + (high-low)*u
\* with u = s/251 in [0, 1), so low is included and high is excluded
uniform(low, high, s) == low + ((high - low) * s) \div 251

(* --------------------------- generate_data ---------------------------- *)

\* trend_factor = 1 + ((i / 11) * (growth_trend - 1)), in thousandths
trend_factor(i, growth_trend) ==
  1000 + ((((i * 1000) \div 11) * (growth_trend - 1000)) \div 1000)

\* faulty variant of roi: the division is not guarded
roi_m(net_profit, total_investment) ==
  Times100(PyDiv(net_profit, total_investment))

\* roi = (net_profit / total_investment) * 100 if total_investment > 0 else 0
roi(net_profit, total_investment) ==
  IF total_investment > 0
    THEN Times100(PyDiv(net_profit, total_investment))
    ELSE Zero

\* faulty variant of MakeRecord: the agency fee is left out of the investment
MakeRecord_m(client, i, gmv, baseline_gmv, ad_spend, fee, cogs_rate) ==
  LET total_investment == ad_spend
      cogs == MulRate(gmv, cogs_rate)
      comm == MulRate(gmv, comm_rate)
      net_profit == gmv - cogs - comm - total_investment
  IN  [ Client_Name |-> client,
        Month |-> months[i + 1],
        Month_Index |-> i,
        GMV |-> gmv,
        Baseline_GMV |-> baseline_gmv,
        Ad_Spend |-> ad_spend,
        Agency_Fee |-> fee,
        COGS |-> cogs,
        Platform_Comm |-> comm,
        Total_Investment |-> total_investment,
        Net_Profit |-> net_profit,
        ROI |-> roi(net_profit, total_investment) ]

\* lines 44-64: the derived fields and the appended row
MakeRecord(client, i, gmv, baseline_gmv, ad_spend, fee, cogs_rate) ==
  LET total_investment == ad_spend + fee
      cogs == MulRate(gmv, cogs_rate)
      comm == MulRate(gmv, comm_rate)
      net_profit == gmv - cogs - comm - total_investment
  IN  [ Client_Name |-> client,
        Month |-> months[i + 1],
        Month_Index |-> i,
        GMV |-> gmv,
        Baseline_GMV |-> baseline_gmv,
        Ad_Spend |-> ad_spend,
        Agency_Fee |-> fee,
        COGS |-> cogs,
        Platform_Comm |-> comm,
        Total_Investment |-> total_investment,
        Net_Profit |-> net_profit,
        ROI |-> roi(net_profit, total_investment) ]

\* faulty variant of CacheHit: the function is not memoized
CacheHit_m == FALSE

\* @st.cache_data: a stored result for the (empty) argument list
CacheHit == Len(cache) > 0

\* line 68, df = generate_data(): the cached table, or a run of the body
CallGenerate ==
  /\ pc = "start"
  /\ IF CacheHit
       THEN /\ df' = cache[1]
            /\ pc' = "kpi"
            /\ UNCHANGED <<genVars>>
       ELSE /\ data' = <<>>
            /\ ci' = 1
            /\ mi' = 0
            /\ pc' = "client"
            /\ UNCHANGED <<profile, df>>
  /\ UNCHANGED <<runs, rng, cache, raw, outVars, selection>>

\* lines 29-34: the per-client parameters
GenClient ==
  /\ pc = "client"
  /\ ci <= Len(clients)
  /\ profile' = [ base_gmv |-> uniform(15000, 80000, Advance(rng, 1)),
                  growth_trend |-> uniform(950, 1200, Advance(rng, 2)),
                  cogs_rate |-> uniform(350, 450, Advance(rng, 3)) ]
  /\ rng' = Advance(rng, 3)
  /\ mi' = 0
  /\ pc' = "month"
  /\ UNCHANGED <<runs, cache, ci, data, raw, df, outVars, selection>>

\* lines 36-64: one month of the current client
GenMonth ==
  /\ pc = "month"
  /\ LET noise == uniform(900, 1100, Advance(rng, 1))
         gmv == MulRate(MulRate(profile.base_gmv,
                                trend_factor(mi, profile.growth_trend)),
                        noise)
         baseline_gmv == MulRate(gmv, uniform(600, 800, Advance(rng, 2)))
         ad_spend == MulRate(gmv, uniform(80, 150, Advance(rng, 3)))
     IN  data' = Append(data, MakeRecord(clients[ci], mi, gmv, baseline_gmv,
                                         ad_spend, agency_fee,
                                         profile.cogs_rate))
  /\ rng' = Advance(rng, 3)
  /\ IF mi + 1 < Len(months)
       THEN /\ mi' = mi + 1
            /\ UNCHANGED <<ci, pc>>
       ELSE /\ mi' = 0
            /\ ci' = ci + 1
            /\ pc' = "client"
  /\ UNCHANGED <<runs, cache, profile, raw, df, outVars, selection>>

\* line 66 and the decorator: the table is returned and stored
GenReturn ==
  /\ pc = "client"
  /\ ci > Len(clients)
  /\ cache' = <<data>>
  /\ df' = data
  /\ pc' = "kpi"
  /\ UNCHANGED <<runs, rng, genVars, raw, outVars, selection>>

(* ------------------------- frames and columns ------------------------- *)

Min(a, b) == IF a < b THEN a ELSE b

\* the sequence without its i-th element
Remove(seq, i) == SubSeq(seq, 1, i - 1) \o SubSeq(seq, i + 1, Len(seq))

\* frame[col].sum()
RECURSIVE SumTo(_, _, _)
SumTo(frame, col, k) ==
  IF k = 0 THEN 0 ELSE frame[k][col] + SumTo(frame, col, k - 1)

SumCol(frame, col) == SumTo(frame, col, Len(frame))

\* frame[frame["Client_Name"] == name]: the matching rows, in frame order
RECURSIVE SelectTo(_, _, _)
SelectTo(frame, name, k) ==
  IF k = 0 THEN <<>>
  ELSE IF frame[k].Client_Name = name
         THEN Append(SelectTo(frame, name, k - 1), frame[k])
         ELSE SelectTo(frame, name, k - 1)

SelectClient(frame, name) == SelectTo(frame, name, Len(frame))

\* frame["Client_Name"].unique(): the names in order of first appearance
unique(frame) ==
  LET firsts == { k \in 1..Len(frame) :
                    \A j \in 1..(k - 1) :
                       frame[j].Client_Name # frame[k].Client_Name }
      nth(i) == CHOOSE k \in firsts :
                  Cardinality({ j \in firsts : j < k }) = i - 1
  IN  [ i \in 1..Cardinality(firsts) |-> frame[nth(i)].Client_Name ]

\* the group keys of groupby("Client_Name"): the distinct names, ascending
RECURSIVE SortNames(_)
SortNames(S) ==
  IF S = {} THEN <<>>
  ELSE LET n == CHOOSE x \in S : \A y \in S : AlphaRank[x] <= AlphaRank[y]
       IN  <<n>> \o SortNames(S \ {n})

\* faulty variant of GroupKeys: groups in order of appearance (sort=False)
GroupKeys_m(rows) == unique(rows)

GroupKeys(rows) == SortNames({rows[k].Client_Name : k \in 1..Len(rows)})

\* sort_values("Month_Index"): every order the (unstable) default sort may
\* leave the rows in; one order when the month indexes are distinct
RECURSIVE sort_by_month(_)
sort_by_month(rows) ==
  IF rows = <<>> THEN {<<>>}
  ELSE UNION { { <<rows[i]>> \o t : t \in sort_by_month(Remove(rows, i)) } :
               i \in { i \in 1..Len(rows) : \A j \in 1..Len(rows) :
                         rows[i].Month_Index <= rows[j].Month_Index } }

\* faulty variant of sort_desc: the sort is ascending
RECURSIVE sort_desc_m(_)
sort_desc_m(list) ==
  IF list = <<>> THEN {<<>>}
  ELSE UNION { { <<list[i]>> \o t : t \in sort_desc_m(Remove(list, i)) } :
               i \in { i \in 1..Len(list) : \A j \in 1..Len(list) :
                         ~ RatLT(list[j].Profit_Growth_Pct,
                                 list[i].Profit_Growth_Pct) } }

\* sort_values("Profit_Growth_Pct", ascending=False): every order the
\* default sort (quicksort, not stable) may leave the entries in
RECURSIVE sort_desc(_)
sort_desc(list) ==
  IF list = <<>> THEN {<<>>}
  ELSE UNION { { <<list[i]>> \o t : t \in sort_desc(Remove(list, i)) } :
               i \in { i \in 1..Len(list) : \A j \in 1..Len(list) :
                         ~ RatLT(list[i].Profit_Growth_Pct,
                                 list[j].Profit_Growth_Pct) } }

\* frame.head(n)
head(list, n) == SubSeq(list, 1, Min(n, Len(list)))

(* --------------------------- the script run --------------------------- *)

\* lines 80-83: the KPI row
weighted_roi(total_profit, total_invest) ==
  Times100(NpDiv(total_profit, total_invest))

Tab1KPIs ==
  /\ pc = "kpi"
  /\ LET total_gmv == SumCol(df, "GMV")
         total_profit == SumCol(df, "Net_Profit")
         total_invest == SumCol(df, "Total_Investment")
     IN  kpis' = [ total_gmv |-> total_gmv,
                   total_profit |-> total_profit,
                   total_invest |-> total_invest,
                   weighted_roi |-> weighted_roi(total_profit, total_invest) ]
  /\ pc' = "agg"
  /\ UNCHANGED <<runs, rng, cache, genVars, raw, df, client_agg, growth_list,
                 growth_sorted, growth_df, detail, costs, csv, selection>>

\* line 102: Overall_ROI of one aggregate row
Overall_ROI(net_profit, total_investment) ==
  Times100(NpDiv(net_profit, total_investment))

\* lines 94-102: one row per client, in group-key order (the mean of the
\* monthly ROI, which no later step reads, is not carried)
ClientAggOf(rows) ==
  LET keys == GroupKeys(rows)
  IN  [ k \in 1..Len(keys) |->
          LET g == SelectClient(rows, keys[k])
              inv == SumCol(g, "Total_Investment")
              np == SumCol(g, "Net_Profit")
          IN  [ Client_Name |-> keys[k],
                Total_Investment |-> inv,
                Net_Profit |-> np,
                GMV |-> SumCol(g, "GMV"),
                Overall_ROI |-> Overall_ROI(np, inv) ] ]

ClientAgg ==
  /\ pc = "agg"
  /\ client_agg' = ClientAggOf(df)
  /\ pc' = "growth"
  /\ UNCHANGED <<runs, rng, cache, genVars, raw, df, kpis, growth_list,
                 growth_sorted, growth_df, detail, costs, csv, selection>>

\* faulty variant of growth_pct: the baseline is not taken in absolute value
growth_pct_m(first_profit, last_profit) ==
  LET growth_abs == last_profit - first_profit
  IN  IF first_profit # 0
        THEN Times100(NpDiv(growth_abs, first_profit))
        ELSE Zero

\* lines 129-130
growth_pct(first_profit, last_profit) ==
  LET growth_abs == last_profit - first_profit
  IN  IF first_profit # 0
        THEN Times100(NpDiv(growth_abs, Abs(first_profit)))
        ELSE Zero

\* lines 125-131: the entry of one client
GrowthEntry(rows, client) ==
  LET client_df == CHOOSE s \in sort_by_month(SelectClient(rows, client)) : TRUE
      first_profit == client_df[1].Net_Profit
      last_profit == client_df[Len(client_df)].Net_Profit
  IN  [ Client_Name |-> client,
        Profit_Growth_Pct |-> growth_pct(first_profit, last_profit),
        Net_Profit_Total |-> SumCol(client_df, "Net_Profit") ]

\* lines 123-131: the loop over client_agg["Client_Name"].unique()
GrowthList ==
  /\ pc = "growth"
  /\ LET names == unique(client_agg)
     IN  growth_list' = [ k \in 1..Len(names) |-> GrowthEntry(df, names[k]) ]
  /\ pc' = "board"
  /\ UNCHANGED <<runs, rng, cache, genVars, raw, df, kpis, client_agg,
                 growth_sorted, growth_df, detail, costs, csv, selection>>

\* line 133
Leaderboard ==
  /\ pc = "board"
  /\ \E s \in sort_desc(growth_list) :
       /\ growth_sorted' = s
       /\ growth_df' = head(s, TopN)
  /\ pc' = "detail"
  /\ UNCHANGED <<runs, rng, cache, genVars, raw, df, kpis, client_agg,
                 growth_list, detail, costs, csv, selection>>

\* lines 156-171: the selected client's rows, totals and last month
ClientDetail ==
  /\ pc = "detail"
  /\ LET options == unique(df)
         selected_client == options[selection]
     IN  \E c_data \in sort_by_month(SelectClient(df, selected_client)) :
           LET last_month == c_data[Len(c_data)]
           IN  detail' =
                 [ selected_client |-> selected_client,
                   c_data |-> c_data,
                   c_totals |-> SelectClient(client_agg, selected_client)[1],
                   last_month |-> last_month,
                   roi_mult |-> NpDiv(last_month.GMV,
                                      last_month.Total_Investment) ]
  /\ pc' = "costs"
  /\ UNCHANGED <<runs, rng, cache, genVars, raw, df, kpis, client_agg,
                 growth_list, growth_sorted, growth_df, costs, csv, selection>>

\* Python's max(0, x)
max0(x) == IF x > 0 THEN x ELSE 0

\* faulty variant of CostsOf: the net profit is not clamped
CostsOf_m(c_data) ==
  ( "COGS" :> SumCol(c_data, "COGS") ) @@
  ( "Platform Comm" :> SumCol(c_data, "Platform_Comm") ) @@
  ( "Ad Spend" :> SumCol(c_data, "Ad_Spend") ) @@
  ( "Agency Fee" :> SumCol(c_data, "Agency_Fee") ) @@
  ( "Net Profit" :> SumCol(c_data, "Net_Profit") )

\* lines 193-199
CostsOf(c_data) ==
  ( "COGS" :> SumCol(c_data, "COGS") ) @@
  ( "Platform Comm" :> SumCol(c_data, "Platform_Comm") ) @@
  ( "Ad Spend" :> SumCol(c_data, "Ad_Spend") ) @@
  ( "Agency Fee" :> SumCol(c_data, "Agency_Fee") ) @@
  ( "Net Profit" :> max0(SumCol(c_data, "Net_Profit")) )

CostStructure ==
  /\ pc = "costs"
  /\ costs' = CostsOf(detail.c_data)
  /\ pc' = "csv"
  /\ UNCHANGED <<runs, rng, cache, genVars, raw, df, kpis, client_agg,
                 growth_list, growth_sorted, growth_df, detail, csv, selection>>

Columns ==
  << "Client_Name", "Month", "Month_Index", "GMV", "Baseline_GMV", "Ad_Spend",
     "Agency_Fee", "COGS", "Platform_Comm", "Total_Investment", "Net_Profit",
     "ROI" >>

\* c_data.to_csv(index=False): the header line, then one line per row with
\* the fields in column order
to_csv(rows) ==
  <<Columns>> \o
  [ k \in 1..Len(rows) |-> [ c \in 1..Len(Columns) |-> rows[k][Columns[c]] ] ]

\* line 211
Download ==
  /\ pc = "csv"
  /\ csv' = to_csv(detail.c_data)
  /\ pc' = "done"
  /\ UNCHANGED <<runs, rng, cache, genVars, raw, df, kpis, client_agg,
                 growth_list, growth_sorted, growth_df, detail, costs,
                 selection>>

\* the user picks a client in the sidebar: the script runs again
Rerun ==
  /\ pc = "done"
  /\ runs < MaxRuns
  /\ \E k \in 1..Len(unique(df)) : selection' = k
  /\ runs' = runs + 1
  /\ pc' = "start"
  /\ UNCHANGED <<rng, cache, genVars, raw, df, outVars>>

(* ------------------------- the running program ------------------------ *)

Init ==
  /\ pc = "start"
  /\ runs = 1
  /\ rng \in 1..MaxSeed
  /\ cache = <<>>
  /\ ci = 0
  /\ mi = 0
  /\ profile = <<>>
  /\ data = <<>>
  /\ raw = <<>>
  /\ df = <<>>
  /\ kpis = <<>>
  /\ client_agg = <<>>
  /\ growth_list = <<>>
  /\ growth_sorted = <<>>
  /\ growth_df = <<>>
  /\ selection = 1
  /\ detail = <<>>
  /\ costs = <<>>
  /\ csv = <<>>

Next ==
  \/ CallGenerate
  \/ GenClient
  \/ GenMonth
  \/ GenReturn
  \/ Tab1KPIs
  \/ ClientAgg
  \/ GrowthList
  \/ Leaderboard
  \/ ClientDetail
  \/ CostStructure
  \/ Download
  \/ Rerun

Spec == Init /\ [][Next]_vars

(* ------------------------- constructed tables ------------------------- *)

\* the inputs of lines 44-64 for one constructed row: gmv, baseline_gmv,
\* ad_spend, agency fee and cogs rate (a record may have no investment, no
\* sales, or a loss)
RawKinds ==
  { [gmv |-> 500, baseline_gmv |-> 300, ad_spend |-> 50, fee |-> 50,
     cogs_rate |-> 400],
    [gmv |-> 0, baseline_gmv |-> 0, ad_spend |-> 0, fee |-> 10,
     cogs_rate |-> 400],
    [gmv |-> 0, baseline_gmv |-> 0, ad_spend |-> 0, fee |-> 0,
     cogs_rate |-> 400],
    [gmv |-> 25, baseline_gmv |-> 20, ad_spend |-> 0, fee |-> 0,
     cogs_rate |-> 400] }

\* the month indexes of a constructed client: its first and last month
TMonths == <<0, 11>>

\* the constructed tables: n clients with one row per month of TMonths,
\* each client's rows in ascending or in descending month order
RawTables ==
  UNION { { [ k \in 1..(n * Len(TMonths)) |->
                [ client |-> AllClients[((k - 1) \div Len(TMonths)) + 1],
                  i |-> IF rev
                          THEN TMonths[Len(TMonths) - ((k - 1) % Len(TMonths))]
                          ELSE TMonths[((k - 1) % Len(TMonths)) + 1],
                  in |-> kinds[k] ] ] :
              kinds \in [1..(n * Len(TMonths)) -> RawKinds], rev \in BOOLEAN } :
          n \in 1..MaxTClients }

\* the table of the records lines 44-64 derive from the constructed inputs
BuildTable ==
  /\ pc = "build"
  /\ df' = [ k \in 1..Len(raw) |->
               MakeRecord(raw[k].client, raw[k].i, raw[k].in.gmv,
                          raw[k].in.baseline_gmv, raw[k].in.ad_spend,
                          raw[k].in.fee, raw[k].in.cogs_rate) ]
  /\ pc' = "kpi"
  /\ UNCHANGED <<runs, rng, cache, genVars, raw, outVars, selection>>

InitT ==
  /\ pc = "build"
  /\ runs = 1
  /\ rng = 1
  /\ cache = <<>>
  /\ ci = 0
  /\ mi = 0
  /\ profile = <<>>
  /\ data = <<>>
  /\ raw \in RawTables
  /\ df = <<>>
  /\ kpis = <<>>
  /\ client_agg = <<>>
  /\ growth_list = <<>>
  /\ growth_sorted = <<>>
  /\ growth_df = <<>>
  /\ selection \in 1..(Len(raw) \div Len(TMonths))
  /\ detail = <<>>
  /\ costs = <<>>
  /\ csv = <<>>

NextT ==
  \/ BuildTable
  \/ Tab1KPIs
  \/ ClientAgg
  \/ GrowthList
  \/ Leaderboard
  \/ ClientDetail
  \/ CostStructure
  \/ Download

SpecT == InitT /\ [][NextT]_vars

(* ----------------------------- positions ------------------------------ *)

Order ==
  << "start", "client", "month", "build", "kpi", "agg", "growth", "board",
     "detail", "costs", "csv", "done" >>

Pos(p) == CHOOSE k \in 1..Len(Order) : Order[k] = p

\* the step taken from position p has run in the current script run
After(p) == Pos(pc) > Pos(p)

\* the rows of a frame, as a set
Rows(frame) == { frame[k] : k \in 1..Len(frame) }

(* ------------------------------- claims ------------------------------- *)

\* C1: every row the generator emits satisfies total_investment = ad_spend +
\* agency_fee, net_profit = gmv - cogs - platform_comm - total_investment and
\* platform_comm = 0.20 * gmv (to the resolution of the arithmetic), whatever
\* parameters were sampled.
C1_RowIdentities ==
  \A r \in Rows(data) \cup Rows(df) :
    /\ r.Total_Investment = r.Ad_Spend + r.Agency_Fee
    /\ r.Net_Profit = r.GMV - r.COGS - r.Platform_Comm - r.Total_Investment
    /\ 5 * r.Platform_Comm <= r.GMV
    /\ r.GMV < 5 * r.Platform_Comm + 5

C1_Witness ==
  /\ pc = "kpi"
  /\ Len(df) = NumClients * 12
  /\ \E r, q \in Rows(df) :
       /\ r.Client_Name # q.Client_Name
       /\ r.GMV # q.GMV
       /\ r.Ad_Spend # q.Ad_Spend
       /\ r.Net_Profit # q.Net_Profit

\* C2: the generated table has exactly num_clients * 12 rows, and each
\* client's month_index values are exactly 0..11, without duplicate or gap,
\* emitted in strictly increasing order.
C2_TableShape ==
  /\ \A k \in 1..Len(data) : \A j \in 1..(k - 1) :
       data[j].Client_Name = data[k].Client_Name
         => data[j].Month_Index < data[k].Month_Index
  /\ Len(cache) > 0 =>
       LET table == cache[1]
       IN  /\ Len(table) = Len(clients) * 12
           /\ \A c \in 1..Len(clients) :
                LET own == SelectClient(table, clients[c])
                IN  /\ Len(own) = 12
                    /\ \A k \in 1..12 : own[k].Month_Index = k - 1

C2_Witness ==
  /\ Len(cache) > 0
  /\ pc = "kpi"
  /\ df = cache[1]
  /\ Len(df) = NumClients * 12

\* C3: once the table has been generated, every later call of the generator
\* and every later step of a script run leaves the cached table and the
\* random generator untouched, and the table a run works on is the cached one.
C3_CachedTableFixed ==
  [][ Len(cache) > 0 =>
        /\ cache' = cache
        /\ rng' = rng
        /\ (After("build") => df = cache[1])
        /\ (pc' # "start" => df' = cache[1]) ]_vars

C3_Witness ==
  /\ runs >= 2
  /\ pc = "done"
  /\ Len(cache) > 0
  /\ df = cache[1]

\* the rows of the table that belong to one client
Own(name) == { r \in Rows(df) : r.Client_Name = name }

\* sum of a column over a set of rows
RECURSIVE SetSum(_, _)
SetSum(S, col) ==
  IF S = {} THEN 0
  ELSE LET r == CHOOSE x \in S : TRUE IN r[col] + SetSum(S \ {r}, col)

\* the fraction q is exactly 100 * n / d
IsPct(q, n, d) == q.den > 0 /\ q.num * d = 100 * n * q.den

C5_WeightedRoiGuarded ==
  After("kpi") =>
    LET inv == SetSum(Rows(df), "Total_Investment")
        np == SetSum(Rows(df), "Net_Profit")
    IN  /\ inv # 0 => IsPct(kpis.weighted_roi, np, inv)
        /\ inv = 0 => kpis.weighted_roi = Zero

\* C6: each client's overall_roi is sum(net_profit) / sum(total_investment) *
\* 100 over the client's rows, and is exactly 0 when the client's summed
\* total_investment is zero.
C6_OverallRoiGuarded ==
  After("agg") =>
    \A a \in Rows(client_agg) :
      LET inv == SetSum(Own(a.Client_Name), "Total_Investment")
          np == SetSum(Own(a.Client_Name), "Net_Profit")
      IN  /\ inv # 0 => IsPct(a.Overall_ROI, np, inv)
          /\ inv = 0 => a.Overall_ROI = Zero

\* the client's row with the smallest / the largest month index
FirstRow(name) ==
  CHOOSE r \in Own(name) : \A q \in Own(name) : r.Month_Index <= q.Month_Index
LastRow(name) ==
  CHOOSE r \in Own(name) : \A q \in Own(name) : r.Month_Index >= q.Month_Index

\* C7: each client's growth percentage is (last - first) / |first| * 100 when
\* first # 0 and exactly 0 when first = 0, first and last being the net_profit
\* of the client's rows with the smallest and the largest month_index,
\* whatever the order of the rows in the table.
C7_GrowthPct ==
  After("growth") =>
    /\ { e.Client_Name : e \in Rows(growth_list) } =
         { r.Client_Name : r \in Rows(df) }
    /\ \A e \in Rows(growth_list) :
         LET first == FirstRow(e.Client_Name).Net_Profit
             last == LastRow(e.Client_Name).Net_Profit
         IN  /\ first # 0 =>
                  IsPct(e.Profit_Growth_Pct, last - first, Abs(first))
             /\ first = 0 => e.Profit_Growth_Pct = Zero

\* a table whose rows are in descending month order, with a client going
\* from -10 to 10 (+200) and a client starting at 0
C7_Witness ==
  /\ After("growth")
  /\ Len(df) >= 4
  /\ df[1].Month_Index > df[2].Month_Index
  /\ \E e \in Rows(growth_list) :
       /\ FirstRow(e.Client_Name).Net_Profit = -10
       /\ LastRow(e.Client_Name).Net_Profit = 10
       /\ e.Profit_Growth_Pct = [num |-> 200, den |-> 1]
  /\ \E e \in Rows(growth_list) :
       /\ FirstRow(e.Client_Name).Net_Profit = 0
       /\ LastRow(e.Client_Name).Net_Profit # 0

\* the entries of frame are in non-increasing order of growth, and no entry
\* of all that is missing from frame has a larger growth than one in frame
TopOf(frame, all) ==
  /\ \A i, j \in 1..Len(frame) :
       i < j => ~ RatLT(frame[i].Profit_Growth_Pct, frame[j].Profit_Growth_Pct)
  /\ Rows(frame) \subseteq Rows(all)
  /\ \A i, j \in 1..Len(frame) :
       i # j => frame[i].Client_Name # frame[j].Client_Name
  /\ \A out \in Rows(all) \ Rows(frame) : \A e \in Rows(frame) :
       ~ RatLT(e.Profit_Growth_Pct, out.Profit_Growth_Pct)

\* C8: the leaderboard has exactly min(top_n, number of clients) entries, in
\* non-increasing order of profit_growth_pct, and no client left out has a
\* larger growth than a client returned: for the 5 of the script, and for
\* every other top_n applied to the sorted frame.
C8_Leaderboard ==
  After("board") =>
    /\ Len(growth_df) = Min(TopN, Cardinality({ r.Client_Name : r \in Rows(df) }))
    /\ TopOf(growth_df, growth_list)
    /\ \A n \in 0..MaxTopN :
         /\ Len(head(growth_sorted, n)) =
              Min(n, Cardinality({ r.Client_Name : r \in Rows(df) }))
         /\ TopOf(head(growth_sorted, n), growth_list)

C8_Witness ==
  /\ After("board")
  /\ Len(growth_list) > TopN
  /\ Len(growth_df) = TopN
  /\ RatLT(growth_df[TopN].Profit_Growth_Pct, growth_df[1].Profit_Growth_Pct)
  /\ \E k \in 1..(Len(growth_list) - 1) :
       RatLT(growth_list[k].Profit_Growth_Pct,
             growth_list[k + 1].Profit_Growth_Pct)

\* position of a client in the table's unique-client enumeration
FirstAppearance(name) ==
  CHOOSE k \in 1..Len(unique(df)) : unique(df)[k] = name

\* C9 as stated: clients with equal profit_growth_pct appear on the
\* leaderboard in the order of their first appearance in the table.
C9_TiesByFirstAppearance ==
  After("board") =>
    \A i, j \in 1..Len(growth_df) :
      (i < j /\ growth_df[i].Profit_Growth_Pct = growth_df[j].Profit_Growth_Pct)
        => FirstAppearance(growth_df[i].Client_Name)
             < FirstAppearance(growth_df[j].Client_Name)

\* C9 as amended: the growth entries are enumerated in ascending client-name
\* order (the group keys), one per client; the sorted frame is a
\* rearrangement of them in which clients with equal profit_growth_pct are
\* adjacent, in an order the code does not fix; the leaderboard is its prefix.
C9_TiesAdjacent ==
  After("board") =>
    /\ \A i, j \in 1..Len(growth_list) :
         i < j => AlphaRank[growth_list[i].Client_Name]
                    < AlphaRank[growth_list[j].Client_Name]
    /\ Len(growth_sorted) = Len(growth_list)
    /\ Rows(growth_sorted) = Rows(growth_list)
    /\ \A i, j, k \in 1..Len(growth_sorted) :
         ( i < k /\ k < j
           /\ growth_sorted[i].Profit_Growth_Pct
                = growth_sorted[j].Profit_Growth_Pct )
           => growth_sorted[k].Profit_Growth_Pct
                = growth_sorted[i].Profit_Growth_Pct
    /\ growth_df = SubSeq(growth_sorted, 1, Len(growth_df))

\* two tied clients on the leaderboard, the later-appearing one first
C9_Witness ==
  /\ After("board")
  /\ \E i, j \in 1..Len(growth_df) :
       /\ i < j
       /\ growth_df[i].Profit_Growth_Pct = growth_df[j].Profit_Growth_Pct
       /\ FirstAppearance(growth_df[i].Client_Name)
            > FirstAppearance(growth_df[j].Client_Name)

\* C10: the cost structure of the selected client maps COGS, Platform
\* Commission, Ad Spend and Agency Fee to the plain sums over the client's
\* rows and Net Profit to max(0, sum of net_profit); the rows, the KPI total,
\* the client aggregate and the growth entry keep the unclamped net profit.
C10_CostStructure ==
  After("costs") =>
    LET own == Own(detail.selected_client)
        np == SetSum(own, "Net_Profit")
    IN  /\ costs["COGS"] = SetSum(own, "COGS")
        /\ costs["Platform Comm"] = SetSum(own, "Platform_Comm")
        /\ costs["Ad Spend"] = SetSum(own, "Ad_Spend")
        /\ costs["Agency Fee"] = SetSum(own, "Agency_Fee")
        /\ costs["Net Profit"] = IF np < 0 THEN 0 ELSE np
        /\ \A r \in Rows(df) :
             r.Net_Profit =
               r.GMV - r.COGS - r.Platform_Comm - r.Total_Investment
        /\ Rows(detail.c_data) = own
        /\ kpis.total_profit = SetSum(Rows(df), "Net_Profit")
        /\ detail.c_totals.Net_Profit = np
        /\ \A e \in Rows(growth_list) :
             e.Net_Profit_Total = SetSum(Own(e.Client_Name), "Net_Profit")

C10_Witness ==
  /\ After("costs")
  /\ SetSum(Own(detail.selected_client), "Net_Profit") < 0
  /\ costs["Net Profit"] = 0
  /\ costs["Agency Fee"] > 0
  /\ detail.c_totals.Net_Profit < 0
  /\ kpis.total_profit < 0
  /\ \E r \in Rows(detail.c_data) : r.Net_Profit < 0

====
